---- MODULE Spec2Model ----
(***************************************************************************)
(* The dispatcher generated by define_dispatch! (postcard-rpc,             *)
(* target_server/dispatch_macro.rs): dispatch, error and sender, the three *)
(* handler flavors (blocking, async, spawn), the Sender they transmit      *)
(* through and the detached tasks the spawn flavor starts.                 *)
(***************************************************************************)
EXTENDS Integers, Sequences, FiniteSets, TLC

\* ------------------------------------------------------------------ bounds
\* Number of calls the driving loop makes on the Dispatcher.
MaxCalls == 2
\* Number of slots of the detached task's pool (tasks alive at once).
PoolSize == 2

\* --------------------------------------------------------------- constants
\* Width of a routing key in bytes, and length of the transmit buffer.
KeyWidth == 4
TxBufLen == 16
\* A frame starts with the key and the four bytes of seq_no.
HdrLen == KeyWidth + 4

\* The registration table of the dispatcher: endpoint => flavor handler.
Endpoints == {"alpha", "beta", "delta", "epsilon"}
Flavor == [alpha |-> "async", beta |-> "async", delta |-> "blocking", epsilon |-> "spawn"]
\* A registration table with an endpoint on the key of the error frames.
REQ_KEY_OnErrorKey == [alpha |-> <<238, 238, 0, 0>>, beta |-> <<34, 32, 0, 0>>,
                       delta |-> <<51, 48, 0, 0>>, epsilon |-> <<68, 64, 0, 0>>]

REQ_KEY == [alpha |-> <<17, 16, 0, 0>>, beta |-> <<34, 32, 0, 0>>,
            delta |-> <<51, 48, 0, 0>>, epsilon |-> <<68, 64, 0, 0>>]
RequestType == [alpha |-> "bool", beta |-> "unit", delta |-> "u8", epsilon |-> "bool"]
ERROR_KEY == <<238, 238, 0, 0>>

\* Keys and payloads the transport delivers.
Keys == {REQ_KEY[e] : e \in Endpoints}
            \cup {ERROR_KEY, <<255, 255, 255, 255>>}
Bodies == {<<>>, <<1>>, <<2>>}

\* ------------------------------------------------------------------- codec
\* Key::to_bytes: the key's bytes, in order.
to_bytes(key) == [i \in 1..KeyWidth |-> key[i]]

Fail == [ok |-> FALSE, val |-> 0]
Ok(v) == [ok |-> TRUE, val |-> v]

\* postcard::to_vec of a request value of type ty.
encode(ty, r) ==
    CASE ty = "unit" -> <<>>
      [] ty = "bool" -> IF r THEN <<1>> ELSE <<0>>
      [] ty = "u8" -> <<r>>

\* postcard::from_bytes of a request of type ty: bytes after the value are
\* ignored, a missing byte or a bool that is neither 0 nor 1 is an error.
from_bytes(ty, body) ==
    CASE ty = "unit" -> Ok("unit")
      [] ty = "bool" ->
            IF Len(body) = 0 THEN Fail
            ELSE IF body[1] = 0 THEN Ok(FALSE)
            ELSE IF body[1] = 1 THEN Ok(TRUE)
            ELSE Fail
      [] ty = "u8" -> IF Len(body) = 0 THEN Fail ELSE Ok(body[1])

ReqValues(ty) ==
    CASE ty = "unit" -> {"unit"}
      [] ty = "bool" -> BOOLEAN
      [] ty = "u8" -> {0, 1, 2}

\* WireError and its encoding: the variant's index, then its fields.
WireErrorKinds == <<"DeserFailed", "SerFailed", "UnknownKey", "FailedToSpawn">>
WireError(kind, bytes) == [kind |-> kind, bytes |-> bytes]
DeserFailed == WireError("DeserFailed", <<>>)
SerFailed == WireError("SerFailed", <<>>)
FailedToSpawn == WireError("FailedToSpawn", <<>>)
UnknownKey(bytes) == WireError("UnknownKey", bytes)

Discriminant(kind) == CHOOSE i \in 1..Len(WireErrorKinds) : WireErrorKinds[i] = kind
EncodeWireError(e) == <<Discriminant(e.kind) - 1>> \o e.bytes
DecodeWireError(body) == WireError(WireErrorKinds[body[1] + 1], SubSeq(body, 2, Len(body)))

\* Responses are byte vectors: a length, then the bytes.
RespSmall == <<5>>
RespBig == <<1, 2, 3, 4, 5, 6, 7, 8, 9, 10>>
Responses == {RespSmall, RespBig}
EncodeResp(resp) == <<Len(resp)>> \o resp

\* ------------------------------------------------------------------- state
Main == 0
Slots == 1..PoolSize
Procs == {Main} \cup Slots
Free == -1

VARIABLES
    pc,        \* where the driving loop is: idle, handler, reply, error
    context,   \* Dispatcher.context (TestContext)
    mutex,     \* holder of the SENDER_INNER mutex, or Free
    tx_buf,    \* the shared transmit buffer
    snd,       \* per Sender handle: the reply / reply_keyed call in progress
    tasks,     \* the detached task pool
    ncalls,    \* number of calls made on the Dispatcher so far
    cur,       \* the call in progress, or the last one: its inputs and outcome
    prev,      \* how the call before cur ended
    refused,   \* the calls whose task the spawner refused
    wire,      \* frames the transport has written since cur began, in order
    invoked,   \* handler invocations of cur
    derived,   \* the SpawnContexts cur derived from the context
    armlog,    \* what cur's spawn arm did, in order
    bodyRan,   \* detached handler bodies started since cur began
    txlog      \* the reply / reply_keyed calls cur made on the Dispatcher's handle

vars == <<pc, context, mutex, tx_buf, snd, tasks, ncalls, cur, prev, refused,
          wire, invoked, derived, armlog, bodyRan, txlog>>

\* tx_buf holds the part of the buffer that is in use (the frame being built).
EmptyBuf == [key |-> <<>>, seq |-> -1, body |-> <<>>]
IdleSnd == [st |-> "none", key |-> <<>>, seq |-> 0, val |-> <<>>, call |-> 0]
FreeTask == [st |-> "free", call |-> 0, ep |-> "", hdr |-> [key |-> <<>>, seq_no |-> 0],
             req |-> 0, ctx |-> [b |-> 0], sender |-> Free]
NoCall == [op |-> "none", hdr |-> [key |-> <<>>, seq_no |-> 0], body |-> <<>>,
           ctx0 |-> [a |-> 0, b |-> 0], admit |-> "none", ret |-> TRUE]
NoPrev == [end |-> "none", sent |-> FALSE]

\* Dispatcher::new: the sender is initialised, the context is the caller's.
Init ==
    /\ pc = "idle"
    /\ context = [a |-> 0, b |-> 0]
    /\ mutex = Free
    /\ tx_buf = EmptyBuf
    /\ snd = [p \in Procs |-> IdleSnd]
    /\ tasks = [i \in Slots |-> FreeTask]
    /\ ncalls = 0
    /\ cur = NoCall
    /\ prev = NoPrev
    /\ refused = {}
    /\ wire = <<>>
    /\ invoked = <<>>
    /\ derived = <<>>
    /\ armlog = <<>>
    /\ bodyRan = <<>>
    /\ txlog = <<>>

\* CanCall without the exclusive borrow: a frame is handed to the Dispatcher
\* while a call is still in progress.
CanCall_Reentrant == ncalls < MaxCalls

\* A frame may be handed to the Dispatcher: the loop is between two calls.
CanCall == pc = "idle" /\ ncalls < MaxCalls

\* ------------------------------------------------------------------ Sender
FrameLen(val) == HdrLen + Len(val)

\* A call of reply / reply_keyed on handle p: it waits for the mutex.
Transmit(p, n, via, seq_no, key, val, log) ==
    /\ snd' = [snd EXCEPT ![p] = [st |-> "lock", key |-> key, seq |-> seq_no,
                                  val |-> val, call |-> n]]
    /\ txlog' = IF p = Main
                THEN Append(log, [via |-> via, key |-> key, seq |-> seq_no,
                                  val |-> val, res |-> "pending"])
                ELSE log

\* Sender::reply_keyed(seq_no, key, &value) on handle p.
reply_keyed(p, n, seq_no, key, val, log) ==
    Transmit(p, n, "reply_keyed", seq_no, key, val, log)

\* Sender::reply::<E>(seq_no, &response) on handle p: keyed by E's routing key.
reply(p, n, ep, seq_no, resp, log) ==
    Transmit(p, n, "reply", seq_no, REQ_KEY[ep], EncodeResp(resp), log)

\* The call on handle p ends with res: ok, ser (did not fit) or io (write failed).
Finish(p, res) ==
    /\ snd' = [snd EXCEPT ![p].st = res]
    /\ txlog' = IF p = Main THEN [txlog EXCEPT ![Len(txlog)].res = res] ELSE txlog

\* Locked with a mutex cell of its own behind every handle: a handle finds
\* the mutex locked only when it holds it itself.
Locked_OwnCell(p) == mutex = p

\* What handle p finds when it tries the mutex: every handle is on the one
\* static SENDER_INNER cell, locked whoever holds it.
Locked(p) == mutex # Free

\* The mutex is taken: exclusive access to the buffer and the endpoint.
SenderLock(p) ==
    /\ snd[p].st = "lock"
    /\ ~Locked(p)
    /\ mutex' = p
    /\ snd' = [snd EXCEPT ![p].st = "hdr"]
    /\ UNCHANGED <<pc, context, tx_buf, tasks, ncalls, cur, prev, refused,
                   wire, invoked, derived, armlog, bodyRan, txlog>>

\* The header (key, seq_no) is written at the start of the buffer.
SenderFillHdr(p) ==
    /\ snd[p].st = "hdr"
    /\ tx_buf' = [key |-> snd[p].key, seq |-> snd[p].seq, body |-> <<>>]
    /\ snd' = [snd EXCEPT ![p].st = "body"]
    /\ UNCHANGED <<pc, context, mutex, tasks, ncalls, cur, prev, refused,
                   wire, invoked, derived, armlog, bodyRan, txlog>>

\* The value is serialised after the header; a value that overflows the
\* buffer fails the call and releases the mutex.
SenderFillBody(p) ==
    /\ snd[p].st = "body"
    /\ IF FrameLen(snd[p].val) <= TxBufLen
       THEN /\ tx_buf' = [tx_buf EXCEPT !.body = snd[p].val]
            /\ snd' = [snd EXCEPT ![p].st = "write"]
            /\ UNCHANGED <<mutex, txlog>>
       ELSE /\ mutex' = Free
            /\ Finish(p, "ser")
            /\ tx_buf' = EmptyBuf
    /\ UNCHANGED <<pc, context, tasks, ncalls, cur, prev, refused, wire, invoked, derived, armlog, bodyRan>>

\* The used part of the buffer is written to the endpoint, which may fail;
\* the mutex is released either way, and nothing of the buffer is in use.
SenderWrite(p) ==
    /\ snd[p].st = "write"
    /\ \E ok \in BOOLEAN :
          /\ wire' = IF ok THEN Append(wire, [key |-> tx_buf.key, seq |-> tx_buf.seq,
                                              body |-> tx_buf.body, by |-> p,
                                              call |-> snd[p].call])
                     ELSE wire
          /\ Finish(p, IF ok THEN "ok" ELSE "io")
    /\ mutex' = Free
    /\ tx_buf' = EmptyBuf
    /\ UNCHANGED <<pc, context, tasks, ncalls, cur, prev, refused, invoked, derived, armlog, bodyRan>>

\* -------------------------------------------------------------- Dispatcher
\* Lookup that takes the first arm of the match whatever the key.
Lookup_FirstArm(key) == "alpha"

\* The arm of the match that hdr.key selects, if any.
Registered(key) == \E e \in Endpoints : REQ_KEY[e] = key
Lookup(key) == CHOOSE e \in Endpoints : REQ_KEY[e] = key

\* SpawnContext::spawn_ctxt of TestContext.
spawn_ctxt(ctx) == [b |-> ctx.b]

\* sender that makes one clone and hands that same clone to every task.
sender_OneClone(i) == 1

\* sender that hands out the Dispatcher's own handle, not a clone of it.
sender_NoClone(i) == Main

\* Dispatch::sender: a clone of the Dispatcher's handle, for task slot i.
sender(i) == i

\* What a handler may do with the context it borrows.
CtxVals == {0, 1}
HandlerEffects(ctx) == {[ctx EXCEPT !.b = v] : v \in CtxVals}

\* How a call ended: the error it reported (if any), and whether that last
\* frame was written.
LastTx == txlog[Len(txlog)]
EndOf ==
    IF ncalls = 0 THEN NoPrev
    ELSE IF txlog = <<>> THEN [end |-> "spawned", sent |-> FALSE]
    ELSE [end |-> IF LastTx.key = ERROR_KEY THEN DecodeWireError(LastTx.val).kind
                  ELSE "reply",
          sent |-> LastTx.res = "ok"]

\* The driving loop hands the next frame (or error) to the Dispatcher.
NewCall(op, hdr, body, admit) ==
    /\ CanCall
    /\ ncalls' = ncalls + 1
    /\ cur' = [op |-> op, hdr |-> hdr, body |-> body, ctx0 |-> context,
               admit |-> admit, ret |-> admit = "ok"]
    /\ prev' = EndOf
    /\ refused' = IF admit = "refused" THEN refused \cup {ncalls + 1} ELSE refused
    /\ wire' = <<>>
    /\ bodyRan' = <<>>
Returned == cur' = [cur EXCEPT !.ret = TRUE]
Invoke(ep, req) == invoked' = <<[ep |-> ep, req |-> req]>>

\* error that does not pass the caller's seq_no on.
error_SeqZero(seq_no, err, log) ==
    /\ reply_keyed(Main, IF pc = "idle" THEN ncalls + 1 ELSE ncalls,
                   0, ERROR_KEY, EncodeWireError(err), log)
    /\ pc' = "error"

\* Dispatch::error: one reply_keyed under ERROR_KEY, its result discarded.
error(seq_no, err, log) ==
    /\ reply_keyed(Main, IF pc = "idle" THEN ncalls + 1 ELSE ncalls,
                   seq_no, ERROR_KEY, EncodeWireError(err), log)
    /\ pc' = "error"

\* error that unwraps the result of reply_keyed: a failed send panics.
ErrorReturn_Unwrap ==
    /\ pc = "error"
    /\ snd[Main].st \in {"ok", "ser", "io"}
    /\ pc' = IF snd[Main].st = "ok" THEN "idle" ELSE "panicked"
    /\ snd' = [snd EXCEPT ![Main] = IdleSnd]
    /\ cur' = [cur EXCEPT !.ret = snd[Main].st = "ok"]
    /\ UNCHANGED <<context, mutex, tx_buf, tasks, ncalls, prev, refused,
                   wire, invoked, derived, armlog, bodyRan, txlog>>

\* error that sends its frame again when the send failed.
ErrorReturn_Retries ==
    /\ pc = "error"
    /\ snd[Main].st \in {"ok", "ser", "io"}
    /\ IF snd[Main].st = "ok"
       THEN /\ pc' = "idle"
            /\ snd' = [snd EXCEPT ![Main] = IdleSnd]
            /\ Returned
            /\ UNCHANGED txlog
       ELSE /\ error(cur.hdr.seq_no, DecodeWireError(txlog[Len(txlog)].val), txlog)
            /\ UNCHANGED cur
    /\ UNCHANGED <<context, mutex, tx_buf, tasks, ncalls, prev, refused,
                   wire, invoked, derived, armlog, bodyRan>>

\* error that does not await reply_keyed: it returns while its frame is
\* still to be written.
ErrorReturn_NotAwaited ==
    /\ pc = "error"
    /\ pc' = "idle"
    /\ Returned
    /\ UNCHANGED <<context, mutex, tx_buf, snd, tasks, ncalls, prev, refused,
                   wire, invoked, derived, armlog, bodyRan, txlog>>

\* error has sent (or failed to send) its frame and returns.
ErrorReturn ==
    /\ pc = "error"
    /\ snd[Main].st \in {"ok", "ser", "io"}
    /\ pc' = "idle"
    /\ snd' = [snd EXCEPT ![Main] = IdleSnd]
    /\ Returned
    /\ UNCHANGED <<context, mutex, tx_buf, tasks, ncalls, prev, refused,
                   wire, invoked, derived, armlog, bodyRan, txlog>>

\* The driving loop calls error itself (a frame it could not hand to dispatch).
CallError(seq_no, err) ==
    /\ NewCall("error", [key |-> ERROR_KEY, seq_no |-> seq_no], <<>>, "none")
    /\ error(seq_no, err, <<>>)
    /\ invoked' = <<>>
    /\ derived' = <<>>
    /\ armlog' = <<>>
    /\ UNCHANGED <<context, mutex, tx_buf, tasks>>

\* DispatchUnknown reporting a zeroed key in place of the received one.
DispatchUnknown_ZeroKey(hdr, body) ==
    /\ ~Registered(hdr.key)
    /\ NewCall("dispatch", hdr, body, "none")
    /\ error(hdr.seq_no, UnknownKey([i \in 1..KeyWidth |-> 0]), <<>>)
    /\ invoked' = <<>>
    /\ derived' = <<>>
    /\ armlog' = <<>>
    /\ UNCHANGED <<context, mutex, tx_buf, tasks>>

\* dispatch, `other` arm: no endpoint has this key.
DispatchUnknown(hdr, body) ==
    /\ ~Registered(hdr.key)
    /\ NewCall("dispatch", hdr, body, "none")
    /\ error(hdr.seq_no, UnknownKey(to_bytes(hdr.key)), <<>>)
    /\ invoked' = <<>>
    /\ derived' = <<>>
    /\ armlog' = <<>>
    /\ UNCHANGED <<context, mutex, tx_buf, tasks>>

\* DispatchDeserFailed reporting the wrong kind of error.
DispatchDeserFailed_SerFailed(hdr, body) ==
    /\ Registered(hdr.key)
    /\ ~from_bytes(RequestType[Lookup(hdr.key)], body).ok
    /\ NewCall("dispatch", hdr, body, "none")
    /\ error(hdr.seq_no, SerFailed, <<>>)
    /\ invoked' = <<>>
    /\ derived' = <<>>
    /\ armlog' = <<>>
    /\ UNCHANGED <<context, mutex, tx_buf, tasks>>

\* dispatch, matched arm, the request does not deserialise.
DispatchDeserFailed(hdr, body) ==
    /\ Registered(hdr.key)
    /\ ~from_bytes(RequestType[Lookup(hdr.key)], body).ok
    /\ NewCall("dispatch", hdr, body, "none")
    /\ error(hdr.seq_no, DeserFailed, <<>>)
    /\ invoked' = <<>>
    /\ derived' = <<>>
    /\ armlog' = <<>>
    /\ UNCHANGED <<context, mutex, tx_buf, tasks>>

\* @arm blocking: the handler runs to completion, its answer is sent.
ArmBlocking(ep, hdr, req) ==
    /\ Invoke(ep, req)
    /\ \E ctx \in HandlerEffects(context), resp \in Responses :
          /\ context' = ctx
          /\ reply(Main, ncalls + 1, ep, hdr.seq_no, resp, <<>>)
    /\ pc' = "reply"
    /\ derived' = <<>>
    /\ armlog' = <<>>
    /\ UNCHANGED <<mutex, tx_buf, tasks>>

\* @arm async: the handler is started and awaited.
ArmAsync(ep, hdr, req) ==
    /\ Invoke(ep, req)
    /\ pc' = "handler"
    /\ txlog' = <<>>
    /\ derived' = <<>>
    /\ armlog' = <<>>
    /\ UNCHANGED <<context, mutex, tx_buf, snd, tasks>>

\* @arm async, after the await: the handler has completed, its answer is sent.
AsyncHandlerDone ==
    /\ pc = "handler"
    /\ \E ctx \in HandlerEffects(context), resp \in Responses :
          /\ context' = ctx
          /\ reply(Main, ncalls, Lookup(cur.hdr.key), cur.hdr.seq_no, resp, txlog)
    /\ pc' = "reply"
    /\ UNCHANGED <<mutex, tx_buf, tasks, ncalls, cur, prev, refused, wire, invoked, derived, armlog, bodyRan>>

\* ReplyOk with the test on reply's result dropped: SerFailed is reported
\* after a reply that was sent.
ReplyOk_AlsoReports ==
    /\ pc = "reply"
    /\ snd[Main].st = "ok"
    /\ error(cur.hdr.seq_no, SerFailed, txlog)
    /\ UNCHANGED <<context, mutex, tx_buf, tasks, ncalls, cur, prev, refused,
                   wire, invoked, derived, armlog, bodyRan>>

\* @arm blocking / async: reply returned Ok, dispatch returns.
ReplyOk ==
    /\ pc = "reply"
    /\ snd[Main].st = "ok"
    /\ pc' = "idle"
    /\ snd' = [snd EXCEPT ![Main] = IdleSnd]
    /\ Returned
    /\ UNCHANGED <<context, mutex, tx_buf, tasks, ncalls, prev, refused,
                   wire, invoked, derived, armlog, bodyRan, txlog>>

\* ReplyErr without the report: a failed reply is dropped, dispatch returns.
ReplyErr_Silent ==
    /\ pc = "reply"
    /\ snd[Main].st \in {"ser", "io"}
    /\ pc' = "idle"
    /\ snd' = [snd EXCEPT ![Main] = IdleSnd]
    /\ Returned
    /\ UNCHANGED <<context, mutex, tx_buf, tasks, ncalls, prev, refused,
                   wire, invoked, derived, armlog, bodyRan, txlog>>

\* ReplyErr that sends the reply again, until it is accepted, in place of
\* the report.
ReplyErr_Retries ==
    /\ pc = "reply"
    /\ snd[Main].st \in {"ser", "io"}
    /\ Transmit(Main, ncalls, "reply", LastTx.seq, LastTx.key, LastTx.val,
                SubSeq(txlog, 1, Len(txlog) - 1))
    /\ UNCHANGED <<pc, context, mutex, tx_buf, tasks, ncalls, cur, prev, refused,
                   wire, invoked, derived, armlog, bodyRan>>

\* @arm blocking / async: reply returned Err, SerFailed is reported.
ReplyErr ==
    /\ pc = "reply"
    /\ snd[Main].st \in {"ser", "io"}
    /\ error(cur.hdr.seq_no, SerFailed, txlog)
    /\ UNCHANGED <<context, mutex, tx_buf, tasks, ncalls, cur, prev, refused,
                   wire, invoked, derived, armlog, bodyRan>>

FreeSlots == {i \in Slots : tasks[i].st = "free"}

\* @arm spawn, the spawner admits the task: dispatch returns at once.
ArmSpawnOk(ep, hdr, req) ==
    /\ FreeSlots # {}
    /\ derived' = <<spawn_ctxt(context)>>
    /\ armlog' = <<"spawn_ctxt", "sender", "spawn">>
    /\ Invoke(ep, req)
    /\ LET i == CHOOSE j \in FreeSlots : \A k \in FreeSlots : j <= k
       IN tasks' = [tasks EXCEPT ![i] = [st |-> "ready", call |-> ncalls + 1,
                                         ep |-> ep, hdr |-> hdr, req |-> req,
                                         ctx |-> derived'[1],
                                         sender |-> sender(i)]]
    /\ pc' = "idle"
    /\ txlog' = <<>>
    /\ UNCHANGED <<context, mutex, tx_buf, snd>>

\* ArmSpawnErr that reports FailedToSpawn and leaves the task in the pool.
ArmSpawnErr_StartsTask(ep, hdr, req) ==
    /\ derived' = <<spawn_ctxt(context)>>
    /\ armlog' = <<"spawn_ctxt", "sender", "spawn">>
    /\ Invoke(ep, req)
    /\ error(hdr.seq_no, FailedToSpawn, <<>>)
    /\ tasks' = IF FreeSlots = {} THEN tasks
                ELSE LET j == CHOOSE k \in FreeSlots : TRUE
                     IN [tasks EXCEPT ![j] =
                            [st |-> "ready", call |-> ncalls + 1, ep |-> ep, hdr |-> hdr,
                             req |-> req, ctx |-> derived'[1], sender |-> sender(j)]]
    /\ UNCHANGED <<context, mutex, tx_buf>>

\* ArmSpawnErr that asks the spawner first and derives the SpawnContext and
\* the Sender clone only for a task that is admitted.
ArmSpawnErr_AdmitFirst(ep, hdr, req) ==
    /\ derived' = <<>>
    /\ armlog' = <<"spawn">>
    /\ Invoke(ep, req)
    /\ error(hdr.seq_no, FailedToSpawn, <<>>)
    /\ UNCHANGED <<context, mutex, tx_buf, tasks>>

\* @arm spawn, the spawner refuses the task: FailedToSpawn is reported.
ArmSpawnErr(ep, hdr, req) ==
    /\ derived' = <<spawn_ctxt(context)>>
    /\ armlog' = <<"spawn_ctxt", "sender", "spawn">>
    /\ Invoke(ep, req)
    /\ error(hdr.seq_no, FailedToSpawn, <<>>)
    /\ UNCHANGED <<context, mutex, tx_buf, tasks>>

\* dispatch, matched arm, the request deserialises: the flavor's arm runs.
DispatchArm(hdr, body, flavor, admit) ==
    /\ Registered(hdr.key)
    /\ from_bytes(RequestType[Lookup(hdr.key)], body).ok
    /\ Flavor[Lookup(hdr.key)] = flavor
    /\ NewCall("dispatch", hdr, body, admit)
    /\ LET ep == Lookup(hdr.key)
           req == from_bytes(RequestType[ep], body).val
       IN CASE flavor = "blocking" -> ArmBlocking(ep, hdr, req)
            [] flavor = "async" -> ArmAsync(ep, hdr, req)
            [] flavor = "spawn" /\ admit = "ok" -> ArmSpawnOk(ep, hdr, req)
            [] flavor = "spawn" /\ admit = "refused" -> ArmSpawnErr(ep, hdr, req)

\* The host numbers its requests: the frames arrive with seq_no 7, 8, ...
SeqNos == {7 + ncalls}
Headers == [key : Keys, seq_no : SeqNos]

DispatchBlocking == CanCall /\ \E hdr \in Headers, body \in Bodies : DispatchArm(hdr, body, "blocking", "none")
DispatchAsync == CanCall /\ \E hdr \in Headers, body \in Bodies : DispatchArm(hdr, body, "async", "none")
DispatchSpawnOk == CanCall /\ \E hdr \in Headers, body \in Bodies : DispatchArm(hdr, body, "spawn", "ok")
DispatchSpawnErr == CanCall /\ \E hdr \in Headers, body \in Bodies : DispatchArm(hdr, body, "spawn", "refused")
DispatchOther == CanCall /\ \E hdr \in Headers, body \in Bodies : DispatchUnknown(hdr, body)
DispatchBadBody == CanCall /\ \E hdr \in Headers, body \in Bodies : DispatchDeserFailed(hdr, body)
LoopError == CanCall /\ \E seq_no \in SeqNos, err \in {DeserFailed, SerFailed} : CallError(seq_no, err)

\* ---------------------------------------------------------- detached tasks
\* SpawnCtxt as a view of the Dispatcher's Context: the task reads what the
\* Context holds now.
SpawnCtxt_LiveView(i) == spawn_ctxt(context)

\* The SpawnContext the task in slot i reads: the value moved into it.
SpawnCtxt(i) == tasks[i].ctx

\* The executor polls an admitted task: its body runs, and either answers
\* through its own Sender handle or completes without answering.
TaskRun(i) ==
    /\ tasks[i].st = "ready"
    /\ bodyRan' = Append(bodyRan, [call |-> tasks[i].call, ep |-> tasks[i].ep,
                                   req |-> tasks[i].req, by |-> i,
                                   ctx |-> SpawnCtxt(i)])
    /\ \/ /\ \E resp \in Responses :
                reply(tasks[i].sender, tasks[i].call, tasks[i].ep,
                      tasks[i].hdr.seq_no, resp, txlog)
          /\ tasks' = [tasks EXCEPT ![i].st = "sending"]
       \/ /\ tasks' = [tasks EXCEPT ![i] = FreeTask]
          /\ UNCHANGED <<snd, txlog>>
    /\ UNCHANGED <<pc, context, mutex, tx_buf, ncalls, cur, prev, refused,
                   wire, invoked, derived, armlog>>

\* The task's reply has returned; the task completes and its slot is free again.
TaskExit(i) ==
    /\ tasks[i].st = "sending"
    /\ snd[i].st \in {"ok", "ser", "io"}
    /\ tasks' = [tasks EXCEPT ![i] = FreeTask]
    /\ snd' = [snd EXCEPT ![i] = IdleSnd]
    /\ UNCHANGED <<pc, context, mutex, tx_buf, ncalls, cur, prev, refused,
                   wire, invoked, derived, armlog, bodyRan, txlog>>

SenderLockStep == \E p \in Procs : SenderLock(p)
SenderFillHdrStep == \E p \in Procs : SenderFillHdr(p)
SenderFillBodyStep == \E p \in Procs : SenderFillBody(p)
SenderWriteStep == \E p \in Procs : SenderWrite(p)
TaskRunStep == \E i \in Slots : TaskRun(i)
TaskExitStep == \E i \in Slots : TaskExit(i)

Next ==
    \/ DispatchOther
    \/ DispatchBadBody
    \/ DispatchBlocking
    \/ DispatchAsync
    \/ AsyncHandlerDone
    \/ DispatchSpawnOk
    \/ DispatchSpawnErr
    \/ ReplyOk
    \/ ReplyErr
    \/ ErrorReturn
    \/ LoopError
    \/ SenderLockStep
    \/ SenderFillHdrStep
    \/ SenderFillBodyStep
    \/ SenderWriteStep
    \/ TaskRunStep
    \/ TaskExitStep

Spec == Init /\ [][Next]_vars

\* ---------------------------------------------------------------- fairness
\* The steps each process takes by itself: the driving loop inside a call of
\* dispatch or error, past the handler (a frame's arrival and an awaited
\* handler's completion are not the Dispatcher's to decide), and a detached
\* task inside its body.
SenderStep(p) == SenderLock(p) \/ SenderFillHdr(p) \/ SenderFillBody(p) \/ SenderWrite(p)
MainStep == ReplyOk \/ ReplyErr \/ ErrorReturn \/ SenderStep(Main)
TaskStep(i) == TaskRun(i) \/ TaskExit(i) \/ SenderStep(i)

\* The executor polls every task that can run, and a write to the endpoint
\* ends (with or without an error).
Fairness == WF_vars(MainStep) /\ \A i \in Slots : WF_vars(TaskStep(i))
FairSpec == Spec /\ Fairness

\* ------------------------------------------------------------ observations
\* What the call the Dispatcher is in (or was last in) is about, read off its
\* inputs alone.
InDispatch == ncalls > 0 /\ cur.op = "dispatch"
CurHas(e) == InDispatch /\ cur.hdr.key = REQ_KEY[e]
CurUnknown == InDispatch /\ \A e \in Endpoints : cur.hdr.key # REQ_KEY[e]
CurDecodes(e) == CurHas(e) /\ from_bytes(RequestType[e], cur.body).ok
CurBadBody(e) == CurHas(e) /\ ~from_bytes(RequestType[e], cur.body).ok
Inline(e) == Flavor[e] \in {"blocking", "async"}
CurInline == \E e \in Endpoints : CurDecodes(e) /\ Inline(e)
Done == ncalls > 0 /\ cur.ret

\* The frames the Dispatcher's own handle has put on the wire in this call.
MainFrames == SelectSeq(wire, LAMBDA f : f.by = Main)
IsErrorTx(t, seq_no, err) ==
    /\ t.via = "reply_keyed"
    /\ t.key = ERROR_KEY
    /\ t.seq = seq_no
    /\ t.val = EncodeWireError(err)
IsErrorFrame(f, seq_no, err) ==
    /\ f.key = ERROR_KEY
    /\ f.seq = seq_no
    /\ Len(f.body) > 0
    /\ f.body[1] \in 0..(Len(WireErrorKinds) - 1)
    /\ DecodeWireError(f.body) = err
IsReplyFrame(f, e, seq_no) == f.key = REQ_KEY[e] /\ f.seq = seq_no
TxFrame(t) == [key |-> t.key, seq |-> t.seq, body |-> t.val]
FrameOf(f) == [key |-> f.key, seq |-> f.seq, body |-> f.body]

\* ------------------------------------------------------------------ claims
\* The calls C1 is about: unknown key, undecodable payload, inline endpoint.
C1_Case ==
    \/ CurUnknown
    \/ \E e \in Endpoints : CurBadBody(e)
    \/ CurInline

\* C1, as stated: such a call has transmitted exactly one frame when it
\* returns, whatever the codec and the transport write did.
C1_ExactlyOneFrame == (Done /\ C1_Case) => Len(MainFrames) = 1

\* C1, amended: such a call never transmits more than one frame (never a
\* reply and an error frame both); when it returns it has transmitted exactly
\* the frame of its last reply / reply_keyed call if that call succeeded, and
\* no frame at all if it failed.
C1_AtMostOneFrame ==
    C1_Case =>
        /\ Len(MainFrames) <= 1
        /\ Done =>
              /\ txlog # <<>>
              /\ LastTx.res = "ok" => Len(MainFrames) = 1 /\ FrameOf(MainFrames[1]) = TxFrame(LastTx)
              /\ LastTx.res # "ok" => MainFrames = <<>>

\* An inline call whose reply could not be written and whose SerFailed frame
\* was: one frame in all.
C1_Witness ==
    /\ Done
    /\ CurInline
    /\ Len(txlog) = 2
    /\ txlog[1].res = "io"
    /\ Len(MainFrames) = 1

\* The call's only transmission is error's: one reply_keyed of err under
\* ERROR_KEY with the call's seq_no, which is the only frame the call can have
\* put on the wire, and is on the wire once the call has returned if the
\* write succeeded.
SendsOnly(err) ==
    /\ Len(txlog) = 1
    /\ IsErrorTx(txlog[1], cur.hdr.seq_no, err)
    /\ \A k \in 1..Len(MainFrames) : IsErrorFrame(MainFrames[k], cur.hdr.seq_no, err)
    /\ Len(MainFrames) <= 1
    /\ (Done /\ txlog[1].res = "ok") => Len(MainFrames) = 1
    /\ ~Done => pc = "error"
    /\ Done => pc = "idle"

\* C2: a call with a key that no endpoint has sends, as its only frame, an
\* error frame under ERROR_KEY carrying UnknownKey with the received key's
\* bytes and the received seq_no; it invokes no handler, and it returns after
\* that one send.
C2_UnknownKey ==
    CurUnknown =>
        /\ SendsOnly(UnknownKey(cur.hdr.key))
        /\ invoked = <<>>
        /\ \A i \in Slots : tasks[i].call # ncalls

\* The frame with key ff ff ff ff has been answered and the call has returned.
C2_Witness ==
    /\ Done
    /\ CurUnknown
    /\ cur.hdr.key = <<255, 255, 255, 255>>
    /\ Len(MainFrames) = 1

\* C3: a call whose key is registered and whose payload does not decode sends,
\* as its only frame, DeserFailed with the call's seq_no and returns; no
\* handler is invoked, no reply is sent, no SpawnContext is derived and the
\* Context is as it was when the call began, whatever the endpoint's flavor.
C3_DeserFailed ==
    \A e \in Endpoints :
        CurBadBody(e) =>
            /\ SendsOnly(DeserFailed)
            /\ invoked = <<>>
            /\ derived = <<>>
            /\ context = cur.ctx0
            /\ \A i \in Slots : tasks[i].call # ncalls

\* A spawn-flavor endpoint received a payload that does not decode, and the
\* DeserFailed frame is on the wire.
C3_Witness ==
    /\ Done
    /\ CurBadBody("epsilon")
    /\ Len(MainFrames) = 1

\* C4: when an inline handler's response does not fit the buffer, the reply
\* fails, SerFailed is sent under ERROR_KEY with the call's seq_no (and is on
\* the wire if its write succeeds), and no reply frame is sent for the call.
C4_SerFailed ==
    (CurInline /\ Len(txlog) >= 1 /\ FrameLen(txlog[1].val) > TxBufLen) =>
        /\ txlog[1].via = "reply"
        /\ txlog[1].res \in {"pending", "ser"}
        /\ Len(txlog) <= 2
        /\ Len(txlog) = 2 => IsErrorTx(txlog[2], cur.hdr.seq_no, SerFailed)
        /\ \A k \in 1..Len(MainFrames) :
              /\ MainFrames[k].key # cur.hdr.key
              /\ IsErrorFrame(MainFrames[k], cur.hdr.seq_no, SerFailed)
        /\ Done => Len(txlog) = 2
        /\ (Done /\ LastTx.res = "ok") => Len(MainFrames) = 1

\* An inline handler answered more than the buffer holds and the SerFailed
\* frame is on the wire.
C4_Witness ==
    /\ Done
    /\ CurInline
    /\ Len(txlog) = 2
    /\ txlog[1].res = "ser"
    /\ Len(MainFrames) = 1

\* C5: when the spawner refuses the task of a detached endpoint whose request
\* decoded, dispatch sends, as its only frame, FailedToSpawn with the call's
\* seq_no, and the handler's body never runs: no task of a refused call is
\* ever in the pool, and no body that runs belongs to a refused call.
C5_FailedToSpawn ==
    /\ (InDispatch /\ cur.admit = "refused") =>
          /\ SendsOnly(FailedToSpawn)
          /\ CurDecodes("epsilon")
          /\ ncalls \in refused
    /\ \A i \in Slots : tasks[i].st # "free" => tasks[i].call \notin refused
    /\ \A k \in 1..Len(bodyRan) : bodyRan[k].call \notin refused

\* The first call was refused and reported; a later call's task has run.
C5_Witness ==
    /\ 1 \in refused
    /\ ncalls = 2
    /\ prev = [end |-> "FailedToSpawn", sent |-> TRUE]
    /\ bodyRan # <<>>

\* C6: when the spawner admits the task of a detached endpoint, dispatch
\* transmits nothing and has returned in the same step, before the handler's
\* body has run; the task holds the call's header, the decoded request, its
\* own Sender handle and the SpawnContext derived from the Context as the call
\* found it; and every frame for the call is written through the task's handle.
C6_Detached ==
    (InDispatch /\ cur.admit = "ok") =>
        /\ \E e \in Endpoints : CurDecodes(e) /\ Flavor[e] = "spawn"
        /\ txlog = <<>>
        /\ MainFrames = <<>>
        /\ cur.ret
        /\ pc = "idle"
        /\ derived = <<[b |-> cur.ctx0.b]>>
        /\ (\A k \in 1..Len(bodyRan) : bodyRan[k].call # ncalls) =>
              \E i \in Slots : tasks[i].call = ncalls /\ tasks[i].st = "ready"
        /\ \A i \in Slots :
              tasks[i].call = ncalls =>
                  /\ tasks[i].hdr = cur.hdr
                  /\ Ok(tasks[i].req) = from_bytes(RequestType[tasks[i].ep], cur.body)
                  /\ cur.hdr.key = REQ_KEY[tasks[i].ep]
                  /\ tasks[i].ctx = [b |-> cur.ctx0.b]
                  /\ tasks[i].sender = i
                  /\ snd[Main] = IdleSnd
        /\ \A k \in 1..Len(wire) :
              wire[k].call = ncalls =>
                  /\ wire[k].by \in Slots
                  /\ wire[k].seq = cur.hdr.seq_no

\* dispatch has returned and the task it spawned is writing its reply.
C6_Witness ==
    /\ Done
    /\ InDispatch
    /\ cur.admit = "ok"
    /\ \E i \in Slots : tasks[i].call = ncalls /\ snd[i].st = "write"

\* A frame of the current call is a reply of the inline endpoint the call
\* matched, or an error frame with one of the four kinds.
C7_KeyOrError(key, body) ==
    \/ \E e \in Endpoints : CurDecodes(e) /\ Inline(e) /\ key = REQ_KEY[e]
    \/ /\ key = ERROR_KEY
       /\ Len(body) > 0
       /\ body[1] \in 0..3
       /\ DecodeWireError(body) \in
             {DeserFailed, SerFailed, FailedToSpawn, UnknownKey(cur.hdr.key)}

\* C7: every frame dispatch puts on the wire carries the seq_no of the call's
\* header, and is keyed either by the key of the inline endpoint the call
\* matched, or by ERROR_KEY with a payload that is one of DeserFailed,
\* SerFailed, UnknownKey, FailedToSpawn; the same holds of every frame it
\* hands to the Sender.
C7_Frames ==
    InDispatch =>
        /\ \A k \in 1..Len(MainFrames) :
              /\ MainFrames[k].seq = cur.hdr.seq_no
              /\ MainFrames[k].call = ncalls
              /\ C7_KeyOrError(MainFrames[k].key, MainFrames[k].body)
        /\ \A k \in 1..Len(txlog) :
              /\ txlog[k].seq = cur.hdr.seq_no
              /\ C7_KeyOrError(txlog[k].key, txlog[k].val)

\* The second call, with seq_no 8, has its reply on the wire.
C7_Witness ==
    /\ ncalls = 2
    /\ CurInline
    /\ cur.hdr.seq_no = 8
    /\ Len(MainFrames) = 1
    /\ MainFrames[1].key = cur.hdr.key

\* C8: a frame with endpoint e's key and the encoding of a request r has e's
\* handler called exactly once, with r, and no other handler; a detached
\* handler's body runs at most once, with r. The codec round-trips r.
C8_RoundTrip ==
    \A e \in Endpoints :
        \A r \in ReqValues(RequestType[e]) :
            /\ from_bytes(RequestType[e], encode(RequestType[e], r)) = Ok(r)
            /\ (CurHas(e) /\ cur.body = encode(RequestType[e], r)) =>
                  /\ invoked = <<[ep |-> e, req |-> r]>>
                  /\ \A k \in 1..Len(bodyRan) :
                        bodyRan[k].call = ncalls => bodyRan[k].ep = e /\ bodyRan[k].req = r
                  /\ Cardinality({k \in 1..Len(bodyRan) : bodyRan[k].call = ncalls}) <= 1

\* delta (blocking) was sent the byte 2 and its handler was called with 2.
C8_Witness ==
    /\ Done
    /\ CurHas("delta")
    /\ cur.body = <<2>>
    /\ invoked = <<[ep |-> "delta", req |-> 2]>>

\* Normal processing of a well-formed frame for the inline endpoint e.
C9_Normal(e, r) ==
    /\ invoked = <<[ep |-> e, req |-> r]>>
    /\ pc # "handler" => txlog # <<>>
    /\ txlog # <<>> =>
          /\ txlog[1].via = "reply"
          /\ txlog[1].key = REQ_KEY[e]
          /\ txlog[1].seq = cur.hdr.seq_no
          /\ txlog[1].res = "ok" =>
                /\ Len(txlog) = 1
                /\ Len(MainFrames) = 1
                /\ IsReplyFrame(MainFrames[1], e, cur.hdr.seq_no)

\* C9: no error ends the Dispatcher. It is always idle or in a call; once a
\* call has returned its handle is idle and does not hold the mutex; and after
\* a call that ended in UnknownKey, DeserFailed, SerFailed or FailedToSpawn
\* (sent or not), a well-formed frame for an inline endpoint is processed
\* normally: its handler is called once, its reply is the first thing sent,
\* and the reply is the call's only frame if it is written.
C9_NotTerminal ==
    /\ pc \in {"idle", "handler", "reply", "error"}
    /\ (pc = "idle" /\ ncalls > 0) => cur.ret
    /\ Done => pc = "idle" /\ snd[Main] = IdleSnd /\ mutex # Main
    /\ prev.end \in {"UnknownKey", "DeserFailed", "SerFailed", "FailedToSpawn"} =>
          \A e \in Endpoints :
              \A r \in ReqValues(RequestType[e]) :
                  (CurHas(e) /\ Inline(e) /\ cur.body = encode(RequestType[e], r))
                      => C9_Normal(e, r)

\* The call before ended in an error whose frame could not be written; this
\* call's reply is on the wire.
C9_Witness ==
    /\ Done
    /\ prev.end \in {"UnknownKey", "DeserFailed", "SerFailed", "FailedToSpawn"}
    /\ ~prev.sent
    /\ CurInline
    /\ Len(txlog) = 1
    /\ Len(MainFrames) = 1

\* What error has sent, in every state.
C10_State ==
    /\ \A k \in 1..Len(txlog) : txlog[k].key = ERROR_KEY => k = Len(txlog)
    /\ (Done /\ txlog # <<>> /\ LastTx.key = ERROR_KEY /\ LastTx.res # "ok") =>
          \A k \in 1..Len(MainFrames) : MainFrames[k].key # ERROR_KEY
    /\ (ncalls > 0 /\ cur.op = "error") =>
          /\ Len(txlog) = 1
          /\ txlog[1].via = "reply_keyed"
          /\ txlog[1].key = ERROR_KEY
          /\ txlog[1].seq = cur.hdr.seq_no
          /\ context = cur.ctx0
          /\ invoked = <<>>
          /\ derived = <<>>

\* What a step taken while error is in progress may change.
C10_Step ==
    pc = "error" =>
        /\ context' = context
        /\ Len(txlog') = Len(txlog)
        /\ pc' \in {"error", "idle"}
        /\ pc' = "idle" => cur'.ret

\* C10: error transmits once. A call makes at most one reply_keyed under
\* ERROR_KEY and nothing after it; when that send fails no error frame is on
\* the wire and the call returns; a call of error itself makes exactly that
\* one send; and no step of error changes the Context or sends again.
C10_ErrorOnce == [](C10_State) /\ [][C10_Step]_vars

\* The loop called error, the write failed, and error returned with nothing
\* on the wire.
C10_Witness ==
    /\ Done
    /\ cur.op = "error"
    /\ LastTx.res = "io"
    /\ MainFrames = <<>>

\* A call of error, or a call of dispatch that has reached its reply or its
\* error report: an unknown key, a payload that does not decode, a refused
\* spawn, an inline handler that has completed.
C11_Pending == pc \in {"reply", "error"}

\* The only way out of such a call is its return.
C11_Step ==
    C11_Pending =>
        /\ ncalls' = ncalls
        /\ pc' \in {"reply", "error", "idle"}
        /\ pc' = "idle" => cur'.ret

\* C11: under fair scheduling no call of error, and no call of dispatch past
\* its handler, is in progress forever: it returns, whoever holds the mutex
\* meanwhile, and whether the value fits the buffer and the write succeeds
\* or not.
C11_Returns == []<>(~C11_Pending) /\ [][C11_Step]_vars

\* error is waiting for the mutex, which a detached handler holds.
C11_Witness ==
    /\ pc = "error"
    /\ snd[Main].st = "lock"
    /\ mutex \in Slots
    /\ snd[mutex].st = "write"

\* Handle p holds the buffer: it is filling it or writing it out.
C12_Filling(p) == snd[p].st \in {"hdr", "body", "write"}

\* One holder at a time, which is the holder of the mutex, and the buffer
\* holds what that holder's call has put there and nothing else.
C12_State ==
    /\ \A p, q \in Procs : (C12_Filling(p) /\ C12_Filling(q)) => p = q
    /\ \A p \in Procs : C12_Filling(p) <=> mutex = p
    /\ mutex = Free => tx_buf = EmptyBuf
    /\ \A p \in Procs :
          /\ snd[p].st = "body" =>
                tx_buf = [key |-> snd[p].key, seq |-> snd[p].seq, body |-> <<>>]
          /\ snd[p].st = "write" =>
                tx_buf = [key |-> snd[p].key, seq |-> snd[p].seq, body |-> snd[p].val]

\* A frame that goes out is the key, seq_no and value of the one call that
\* writes it.
C12_Step ==
    (wire' # wire /\ wire' # <<>>) =>
        \E p \in Procs :
            /\ snd[p].st = "write"
            /\ wire' = Append(wire, [key |-> snd[p].key, seq |-> snd[p].seq,
                                     body |-> snd[p].val, by |-> p,
                                     call |-> snd[p].call])

\* C12: at most one holder of a Sender handle is filling or flushing the
\* transmit buffer at any time, and every frame transmitted is the header and
\* body of a single reply / reply_keyed call: no frame is torn.
C12_NoTornFrames == [](C12_State) /\ [][C12_Step]_vars

\* Two calls at once: one has written its frame, which is the last on the
\* wire, and the other, which holds the mutex now, is writing its own.
C12_Witness ==
    /\ wire # <<>>
    /\ \E p, q \in Procs :
          /\ p # q
          /\ snd[p].st = "ok"
          /\ wire[Len(wire)].by = p
          /\ snd[q].st = "write"
          /\ mutex = q

\* A reply / reply_keyed call has returned.
C13_Ended == {"ok", "ser", "io"}

\* How a detached handler's reply ends: with its frame (the endpoint's key,
\* the seq_no of its request, its response) written to the wire; or without
\* any frame, when the response does not fit the buffer or the transport
\* fails the write.
C13_Step ==
    \A i \in Slots :
        (snd[i].st \notin C13_Ended /\ snd'[i].st \in C13_Ended) =>
            /\ tasks[i].st = "sending"
            /\ \/ /\ snd'[i].st = "ok"
                  /\ FrameLen(snd[i].val) <= TxBufLen
                  /\ wire' = Append(wire, [key |-> REQ_KEY[tasks[i].ep],
                                           seq |-> tasks[i].hdr.seq_no,
                                           body |-> snd[i].val, by |-> i,
                                           call |-> tasks[i].call])
               \/ /\ snd'[i].st = "ser"
                  /\ FrameLen(snd[i].val) > TxBufLen
                  /\ wire' = wire
               \/ /\ snd'[i].st = "io"
                  /\ snd[i].st = "write"
                  /\ wire' = wire

C14_State ==
    pc = "handler" =>
        /\ ~cur.ret
        /\ Len(invoked) = 1
        /\ Flavor[invoked[1].ep] = "async"
        /\ CurDecodes(invoked[1].ep)
        /\ txlog = <<>>
        /\ snd[Main] = IdleSnd

\* While a call is in progress no other call begins and no other handler is
\* invoked; and the Context changes only in the step of the one inline
\* handler in progress: a blocking handler's, in the step that calls it, or
\* the suspended async handler's, in the step that completes it.
C14_Step ==
    /\ pc # "idle" =>
          /\ ncalls' = ncalls
          /\ cur'.hdr = cur.hdr
          /\ cur'.body = cur.body
          /\ invoked' = invoked
    /\ context' # context =>
          /\ pc' = "reply"
          /\ Len(invoked') = 1
          /\ cur'.hdr.key = REQ_KEY[invoked'[1].ep]
          /\ \/ /\ pc = "idle"
                /\ ncalls' = ncalls + 1
                /\ Flavor[invoked'[1].ep] = "blocking"
             \/ /\ pc = "handler"
                /\ ncalls' = ncalls
                /\ Flavor[invoked'[1].ep] = "async"

\* C14: inline handlers never overlap. While an inline handler is in progress
\* (a suspended async handler included) no new call of dispatch begins and no
\* other handler is invoked, and only the handler in progress changes the
\* Context.
C14_NoOverlap == [](C14_State) /\ [][C14_Step]_vars

\* An async handler is suspended while a detached handler writes its reply.
C14_Witness ==
    /\ pc = "handler"
    /\ \E i \in Slots : tasks[i].st = "sending" /\ snd[i].st = "write"

\* From the step that admits a task to its completion, the SpawnContext the
\* task holds is the projection of the Context as that step found it; and a
\* body that runs reads that value.
C15_Step ==
    \A i \in Slots :
        /\ (tasks[i].st = "free" /\ tasks'[i].st # "free") =>
              /\ tasks'[i].ctx = [b |-> context.b]
              /\ context' = context
        /\ (tasks[i].st # "free" /\ tasks'[i].st # "free") =>
              /\ tasks'[i].ctx = tasks[i].ctx
              /\ tasks'[i].call = tasks[i].call
        /\ (Len(bodyRan') = Len(bodyRan) + 1 /\ bodyRan'[Len(bodyRan')].by = i) =>
              bodyRan'[Len(bodyRan')].ctx = tasks[i].ctx

\* C15: a SpawnContext is a snapshot taken when its task is spawned: whatever
\* later calls do to the Context, the value a detached handler holds, and
\* reads when its body runs, is the one derived at spawn time.
C15_Snapshot == [][C15_Step]_vars

\* A detached handler spawned when b was 0 has run, and read 0, after the
\* blocking handler of the next call set b to 1.
C15_Witness ==
    /\ context.b = 1
    /\ Len(invoked) = 1
    /\ invoked[1].ep = "delta"
    /\ \E k \in 1..Len(bodyRan) : bodyRan[k].ctx.b = 0 /\ bodyRan[k].call < ncalls

C18_SerFailedMeansEncoding ==
    CurInline =>
        \A k \in 1..Len(MainFrames) :
            IsErrorFrame(MainFrames[k], cur.hdr.seq_no, SerFailed) =>
                /\ Len(invoked) = 1
                /\ txlog[1].via = "reply"
                /\ txlog[1].res = "ser"
                /\ FrameLen(txlog[1].val) > TxBufLen

\* C19: a call for a detached endpoint whose request decodes invokes
\* spawn_ctxt once on the Context and makes one Sender clone, and only then
\* asks the spawner, whether the task is then admitted or refused: a call that
\* ends in FailedToSpawn has invoked spawn_ctxt (which, for TestContext,
\* leaves the Context as it was). A call that ends in UnknownKey or
\* DeserFailed, and a call for an inline endpoint, never invokes it.
C19_SpawnCtxtOnce ==
    /\ \A e \in Endpoints :
          (CurDecodes(e) /\ Flavor[e] = "spawn") =>
              /\ cur.admit \in {"ok", "refused"}
              /\ derived = <<[b |-> cur.ctx0.b]>>
              /\ armlog = <<"spawn_ctxt", "sender", "spawn">>
              /\ context = cur.ctx0
              /\ cur.admit = "refused" =>
                    /\ txlog # <<>>
                    /\ IsErrorTx(txlog[1], cur.hdr.seq_no, FailedToSpawn)
    /\ (ncalls > 0 /\ ~(\E e \in Endpoints : CurDecodes(e) /\ Flavor[e] = "spawn")) =>
          /\ derived = <<>>
          /\ armlog = <<>>
    /\ (txlog # <<>> /\ LastTx.key = ERROR_KEY
            /\ DecodeWireError(LastTx.val).kind \in {"UnknownKey", "DeserFailed"}) =>
          /\ derived = <<>>
          /\ armlog = <<>>

\* The spawner refused the task when b was 1: the SpawnContext had been
\* derived, and FailedToSpawn is on the wire.
C19_Witness ==
    /\ Done
    /\ cur.admit = "refused"
    /\ derived = <<[b |-> 1]>>
    /\ Len(MainFrames) = 1
    /\ IsErrorFrame(MainFrames[1], cur.hdr.seq_no, FailedToSpawn)

\* Whatever dispatch has transmitted belongs to the call in progress, and
\* nothing is transmitted while an awaited handler has yet to complete.
C20_State ==
    /\ \A k \in 1..Len(MainFrames) :
          MainFrames[k].call = ncalls /\ MainFrames[k].seq = cur.hdr.seq_no
    /\ pc = "handler" => txlog = <<>> /\ MainFrames = <<>>

\* A frame goes out (the wire is emptied only when a call begins).
C20_Sent == wire' # wire /\ wire' # <<>>

\* Calls are numbered in arrival order. A frame dispatch transmits goes out
\* while its call is in progress, after the handler has completed when it is
\* a reply; once the call has returned, dispatch transmits nothing for it.
C20_Step ==
    /\ ncalls' >= ncalls
    /\ (C20_Sent /\ wire'[Len(wire')].by = Main) =>
          /\ wire'[Len(wire')].call = ncalls
          /\ wire'[Len(wire')].seq = cur.hdr.seq_no
          /\ ncalls' = ncalls
          /\ ~cur.ret
          /\ pc \in {"reply", "error"}
          /\ wire'[Len(wire')].key # ERROR_KEY =>
                /\ pc = "reply"
                /\ Len(invoked) = 1
                /\ Inline(invoked[1].ep)
                /\ wire'[Len(wire')].key = REQ_KEY[invoked[1].ep]
    /\ (ncalls > 0 /\ cur.ret /\ ncalls' = ncalls) => MainFrames' = MainFrames

\* C20: the frames dispatch itself transmits go out in arrival order: each
\* is written while its own call is in progress, a reply only after its
\* handler has completed, and a call begins only when the one before has
\* returned. Frames of detached handlers are not bound by this.
C20_ArrivalOrder == [](C20_State) /\ [][C20_Step]_vars

\* Out of arrival order: the reply of the detached handler of the first call
\* goes out after the frame dispatch transmitted for the second call.
C20_Witness ==
    /\ Len(wire) = 2
    /\ wire[1].by = Main
    /\ wire[1].call = 2
    /\ wire[2].by \in Slots
    /\ wire[2].call = 1

====
